---- MODULE Spec2Model ----
(***************************************************************************)
(* Configuration management service: the mutation orchestrator (service +  *)
(* repository over a PostgreSQL table with a unique key column), the       *)
(* parent-options tree resolver, the event emitter with its handler table, *)
(* and the JSON encoding of the sub-lists of a Configuration.              *)
(*                                                                         *)
(* Every request runs on its own database session.  A request suspends     *)
(* only at its awaits on the session (SELECT, flush, commit), so each      *)
(* action below is the code between two such awaits.  `store` is the       *)
(* committed content of table `configurations`; a flushed but uncommitted  *)
(* statement lives in `sess` and holds the row (or unique-key) lock until  *)
(* its transaction ends, as under READ COMMITTED.                          *)
(***************************************************************************)
EXTENDS Integers, Sequences, FiniteSets, TLC

\* ------------------------------------------------------------------ bounds
\* Requests issued in one behaviour (also bounds ids, clock and events).
MaxRequests == 3
\* Rows of a store the tree resolver is applied to.
MaxTreeRows == 3
\* Handlers subscribed one by one with on().
MaxHandlers == 2
\* Elements of a sub-list of a Configuration.
MaxListLen == 2

\* ------------------------------------------------------- program constants
\* Python's None (an unset parent_config_id, a missing row).
None == 0
\* A well-formed UUID that uuid4() never hands out to a Configuration.
StrayId == -1
\* limit=1000 of the list_all call in get_parent_options, scaled down so
\* that a store can hold more rows than the limit.
ParentOptionsLimit == 2
\* The nested calls of find_descendants the interpreter allows before it
\* raises RecursionError: the recursion limit of 1000 less the frames already
\* on the stack, so fewer than a page of 1000 rows can require.  Scaled down
\* with ParentOptionsLimit.
RecursionLimit == 2

\* Concurrent requests, each with its own session.
Procs == {"p1", "p2"}
\* Two keys that differ in case only.
Keys == {"k", "K"}
Labels == {"Old", "New"}
\* The sets of field names a caller passes in **updates (columns of the table).
FieldSets ==
    {{}, {"label"}, {"key"}, {"key", "label"}, {"parent_config_id"},
     {"id"}, {"created_at"}, {"label", "created_at"}}
\* Those of the requests that race each other.
RaceFieldSets == {{}, {"label"}, {"key"}}
\* A caller-made timestamp, older than every utcnow() of the run.
Epoch == 0
\* The closed set of data types.
DataTypes == {"string", "number", "date", "list"}

VARIABLES
    store,      \* committed rows of table configurations
    nextId,     \* the next value uuid.uuid4() returns
    now,        \* the next value datetime.utcnow() returns
    nreq,       \* requests issued so far
    pc,         \* per request: the await it is suspended at
    req,        \* per request: operation and arguments
    sess,       \* per request: the session's loaded model and pending statement
    ret,        \* per request: what the last finished call returned or raised
    events,     \* calls of configuration_events.emit, in order
    commits,    \* transactions committed by mutations, in order
    handlers,   \* configuration_events._handlers: event type -> list of handlers
    calls,      \* handler calls of the latest emit and tasks not yet run, in order
    sublists    \* the three sub-lists of one Configuration: entity, columns, entity read back

vars ==
    <<store, nextId, now, nreq, pc, req, sess, ret, events, commits,
      handlers, calls, sublists>>

\* ------------------------------------------------------------------- rows
NullRow ==
    [id |-> None, key |-> "", label |-> "", data_type |-> "", active |-> FALSE,
     parent_config_id |-> None, created_at |-> Epoch, updated_at |-> Epoch]

EmptyMap == [f \in {} |-> None]

Ids(S) == {r.id : r \in S}

RowById(S, i) == CHOOSE r \in S : r.id = i

\* Ids a caller can name: those handed out so far, and one of no Configuration.
KnownIds == (1 .. (nextId - 1)) \cup {StrayId}

\* ------------------------------------------------------------ the database
\* Faulty variant of GetByKey: the existence check compares the wrong column.
GetByLabel(S, key) ==
    IF \E r \in S : r.label = key THEN CHOOSE r \in S : r.label = key ELSE NullRow

\* SELECT ... WHERE key = :key, first row or None (exact string match).
GetByKey(S, key) ==
    IF \E r \in S : r.key = key THEN CHOOSE r \in S : r.key = key ELSE NullRow

\* Faulty variant of GetById: the WHERE clause is missing.
FirstRow(S, i) ==
    IF S # {} THEN CHOOSE r \in S : TRUE ELSE NullRow

\* SELECT ... WHERE id = :id, first row or None.
GetById(S, i) ==
    IF \E r \in S : r.id = i THEN RowById(S, i) ELSE NullRow

\* Faulty variant of UniqueViolation: the key column is not declared unique.
PrimaryKeyOnly(S, row, replaced) ==
    \E r \in S : r.id # replaced /\ r.id = row.id

\* The unique index on key and the primary key on id: would `row` collide
\* with a committed row other than the one it replaces?
UniqueViolation(S, row, replaced) ==
    \E r \in S : r.id # replaced /\ (r.key = row.key \/ r.id = row.id)

\* The session of a request: the ORM object it loaded or built, and the
\* statement it has flushed but not committed.
NoSession ==
    [model |-> NullRow, stmt |-> "none", target |-> None, set |-> EmptyMap,
     total |-> 0]

Pending(q) == pc[q] = "flushed" /\ sess[q].stmt # "none"

\* Committed rows a pending UPDATE or DELETE of q has locked.
RowsLockedBy(q) ==
    IF Pending(q) /\ sess[q].stmt \in {"update", "delete"}
    THEN {sess[q].target} ELSE {}

\* Index entries (keys, ids) a pending INSERT or UPDATE of q has written.
KeysWrittenBy(q) ==
    IF Pending(q) /\ sess[q].stmt = "insert" THEN {sess[q].model.key}
    ELSE IF Pending(q) /\ sess[q].stmt = "update" /\ "key" \in DOMAIN sess[q].set
    THEN {sess[q].set["key"]} ELSE {}

IdsWrittenBy(q) ==
    IF Pending(q) /\ sess[q].stmt = "insert" THEN {sess[q].model.id}
    ELSE IF Pending(q) /\ sess[q].stmt = "update" /\ "id" \in DOMAIN sess[q].set
    THEN {sess[q].set["id"]} ELSE {}

\* A statement that touches row `target` (None for an INSERT) and writes the
\* index entries of `row` waits while another open transaction holds a lock
\* it needs; it resumes when that transaction has ended.
Blocked(p, target, row) ==
    \E q \in Procs \ {p} :
        \/ target \in RowsLockedBy(q)
        \/ row.key \in KeysWrittenBy(q)
        \/ row.id \in IdsWrittenBy(q)
        \/ \E t \in RowsLockedBy(q) :
              /\ t \in Ids(store)
              /\ t # target
              /\ (RowById(store, t).key = row.key \/ t = row.id)

\* Faulty variant of ApplyStmt: a DELETE also removes the children of the row.
ApplyStmtCascading(S, s) ==
    CASE s.stmt = "insert" -> S \cup {s.model}
      [] s.stmt = "update" ->
            IF s.target \in Ids(S)
            THEN (S \ {RowById(S, s.target)}) \cup
                 {[f \in DOMAIN NullRow |->
                     IF f \in DOMAIN s.set THEN s.set[f]
                     ELSE RowById(S, s.target)[f]]}
            ELSE S
      [] s.stmt = "delete" ->
            {r \in S : r.id # s.target /\ r.parent_config_id # s.target}
      [] OTHER -> S

\* The effect of committing the session's pending statement.
ApplyStmt(S, s) ==
    CASE s.stmt = "insert" -> S \cup {s.model}
      [] s.stmt = "update" ->
            IF s.target \in Ids(S)
            THEN (S \ {RowById(S, s.target)}) \cup
                 {[f \in DOMAIN NullRow |->
                     IF f \in DOMAIN s.set THEN s.set[f]
                     ELSE RowById(S, s.target)[f]]}
            ELSE S
      [] s.stmt = "delete" -> {r \in S : r.id # s.target}
      [] OTHER -> S

\* The record of a mutation's commit: which call, which operation, which id.
Committed(p) == [rid |-> req[p].rid, op |-> req[p].op, id |-> sess[p].model.id]

\* --------------------------------------------------------------- sub-lists
\* Python values of the fields typed str, str | None and Any, as a request
\* body carries them: a tag and the text of the value (of its elements, for
\* a list).
PyStr(s) == [py |-> "str", items |-> <<s>>]

PyInt(s) == [py |-> "int", items |-> <<s>>]

PyNone == [py |-> "NoneType", items |-> << >>]

PyList(items) == [py |-> "list", items |-> items]

\* json.dumps of one value: a list or a tuple becomes an array.
Dumps(value) ==
    CASE value.py = "str" -> [json |-> "string", items |-> value.items]
      [] value.py = "int" -> [json |-> "number", items |-> value.items]
      [] value.py = "NoneType" -> [json |-> "null", items |-> << >>]
      [] value.py \in {"list", "tuple"} -> [json |-> "array", items |-> value.items]

\* json.loads of one value: an array becomes a list.
Loads(text) ==
    CASE text.json = "string" -> [py |-> "str", items |-> text.items]
      [] text.json = "number" -> [py |-> "int", items |-> text.items]
      [] text.json = "null" -> [py |-> "NoneType", items |-> << >>]
      [] text.json = "array" -> [py |-> "list", items |-> text.items]

\* The JSON object the repository writes for one element of each list.
EncodeRule(r) == [rule_type |-> Dumps(r.rule_type), value |-> Dumps(r.value)]

EncodeCondition(c) ==
    [operator |-> Dumps(c.operator), value |-> Dumps(c.value),
     default_value |-> Dumps(c.default_value)]

\* Faulty variant of EncodeTranslation: the description is left out.
EncodeTranslationWithoutDescription(t) ==
    [language |-> Dumps(t.language), label |-> Dumps(t.label)]

EncodeTranslation(t) ==
    [language |-> Dumps(t.language), label |-> Dumps(t.label),
     description |-> Dumps(t.description)]

\* A column: NULL, or the text json.dumps made of a list of objects.
NullColumn == [null |-> TRUE, array |-> << >>]

Column(objects) == [null |-> FALSE, array |-> objects]

\* Faulty variant of EncodeList: the elements are written last to first.
EncodeListReversed(field, value) ==
    Column([i \in DOMAIN value |->
               CASE field = "validation_rules" -> EncodeRule(value[Len(value) + 1 - i])
                 [] field = "parent_conditions" -> EncodeCondition(value[Len(value) + 1 - i])
                 [] field = "translations" -> EncodeTranslation(value[Len(value) + 1 - i])])

\* json.dumps([... for x in value]) of the create and update paths.
EncodeList(field, value) ==
    Column([i \in DOMAIN value |->
               CASE field = "validation_rules" -> EncodeRule(value[i])
                 [] field = "parent_conditions" -> EncodeCondition(value[i])
                 [] field = "translations" -> EncodeTranslation(value[i])])

\* ValidationRule(**r), ParentCondition(**c), Translation(**t): the fields by
\* name; description defaults to None.
DecodeObject(field, o) ==
    CASE field = "validation_rules" ->
            [rule_type |-> Loads(o.rule_type), value |-> Loads(o.value)]
      [] field = "parent_conditions" ->
            [operator |-> Loads(o.operator), value |-> Loads(o.value),
             default_value |-> Loads(o.default_value)]
      [] field = "translations" ->
            [language |-> Loads(o.language), label |-> Loads(o.label),
             description |-> IF "description" \in DOMAIN o
                             THEN Loads(o.description) ELSE PyNone]

\* _model_to_domain for one column: [] when the column is empty or NULL,
\* else the objects of json.loads turned into value objects.
DecodeList(field, column) ==
    IF column.null \/ column.array = << >> THEN << >>
    ELSE [i \in DOMAIN column.array |-> DecodeObject(field, column.array[i])]

ListFields == {"validation_rules", "parent_conditions", "translations"}

\* The value objects a caller can put into each list.
ElementsOf(field) ==
    CASE field = "validation_rules" ->
            {[rule_type |-> PyStr("min"), value |-> v] :
                v \in {PyInt("1"), PyStr("a"), PyList(<<"1", "10">>)}}
      [] field = "parent_conditions" ->
            {[operator |-> PyStr("between"), value |-> PyList(<<"1", "10">>),
              default_value |-> d] : d \in {PyStr("a"), PyNone}}
      [] field = "translations" ->
            {[language |-> PyStr("en"), label |-> PyStr("L"), description |-> d] :
                d \in {PyStr("d"), PyNone}}

\* The non-empty lists of at most MaxListLen elements.
ListsOf(field) ==
    UNION {[1 .. n -> ElementsOf(field)] : n \in 1 .. MaxListLen}

NoLists == [f \in ListFields |-> << >>]

NoSublists ==
    [phase |-> "none", config |-> NoLists,
     model |-> [f \in ListFields |-> NullColumn], domain |-> NoLists]

\* ConfigurationModel(..., validation_rules=json.dumps(...), ...) of create.
CreateEncode ==
    /\ sublists.phase = "built"
    /\ sublists' = [sublists EXCEPT
                       !.phase = "encoded",
                       !.model = [f \in ListFields |-> EncodeList(f, sublists.config[f])]]
    /\ UNCHANGED <<store, nextId, now, nreq, pc, req, sess, ret, events, commits,
                   handlers, calls>>

\* The setattr loop of update for one of the three lists.
UpdateEncode(field, value) ==
    /\ sublists.phase \in {"encoded", "decoded"}
    /\ sublists' = [sublists EXCEPT
                       !.phase = "encoded",
                       !.config[field] = value,
                       !.model[field] = EncodeList(field, value),
                       !.domain = NoLists]
    /\ UNCHANGED <<store, nextId, now, nreq, pc, req, sess, ret, events, commits,
                   handlers, calls>>

\* _model_to_domain(model)
ModelToDomain ==
    /\ sublists.phase = "encoded"
    /\ sublists' = [sublists EXCEPT
                       !.phase = "decoded",
                       !.domain = [f \in ListFields |-> DecodeList(f, sublists.model[f])]]
    /\ UNCHANGED <<store, nextId, now, nreq, pc, req, sess, ret, events, commits,
                   handlers, calls>>

\* ---------------------------------------------------------------- requests
NoRequest ==
    [op |-> "none", rid |-> 0, key |-> "", label |-> "", data_type |-> "",
     lists |-> NoLists, parent_config_id |-> None, config_id |-> None,
     updates |-> EmptyMap, correlation_id |-> PyNone, limit |-> 0, offset |-> 0]

NoResult ==
    [status |-> "none", entity |-> NullRow, arg |-> None, items |-> {}, total |-> 0,
     limit |-> 0, offset |-> 0, visited |-> << >>]

Result(st, e) == [NoResult EXCEPT !.status = st, !.entity = e]

Finish(p, st, e) ==
    /\ ret' = [ret EXCEPT ![p] = Result(st, e)]
    /\ pc' = [pc EXCEPT ![p] = "idle"]
    /\ req' = [req EXCEPT ![p] = NoRequest]
    /\ sess' = [sess EXCEPT ![p] = NoSession]

Init ==
    /\ store = {}
    /\ nextId = 1
    /\ now = 1
    /\ nreq = 0
    /\ pc = [p \in Procs |-> "idle"]
    /\ req = [p \in Procs |-> NoRequest]
    /\ sess = [p \in Procs |-> NoSession]
    /\ ret = [p \in Procs |-> NoResult]
    /\ events = << >>
    /\ commits = << >>
    /\ handlers = EmptyMap
    /\ calls = << >>
    /\ sublists = NoSublists

\* bool(value) of a value that is a string or None.
Truthy(value) == value.py # "NoneType" /\ value.items # <<"">>

\* Faulty variant of OrUnknown: the caller's correlation id is dropped.
AlwaysUnknown(correlation_id) == PyStr("unknown")

\* correlation_id or "unknown"
OrUnknown(correlation_id) ==
    IF Truthy(correlation_id) THEN correlation_id ELSE PyStr("unknown")

\* Faulty variant of Event: the event is built without the changes.
EventWithoutChanges(kind, e, changes, r, correlation_id) ==
    [kind |-> kind, config_id |-> e.id, key |-> e.key, label |-> e.label,
     data_type |-> e.data_type,
     at |-> IF kind = "ConfigurationCreated" THEN e.created_at ELSE e.updated_at,
     changes |-> EmptyMap, correlation_id |-> OrUnknown(correlation_id), rid |-> r]

\* The event record built from the entity the repository holds.
Event(kind, e, changes, r, correlation_id) ==
    [kind |-> kind, config_id |-> e.id, key |-> e.key, label |-> e.label,
     data_type |-> e.data_type,
     at |-> IF kind = "ConfigurationCreated" THEN e.created_at ELSE e.updated_at,
     changes |-> changes, correlation_id |-> OrUnknown(correlation_id), rid |-> r]

\* Faulty variant of Emit: the event is emitted twice.
EmitTwice(log, event) == Append(Append(log, event), event)

\* configuration_events.emit(event), as the repository calls it.
Emit(log, event) == Append(log, event)

\* Faulty variant of AfterCommit: the emit sits between flush and commit.
BeforeCommit(p, op) == pc[p] = "flushed" /\ req[p].op = op

\* Where the emit of a mutation sits: after the await of session.commit().
AfterCommit(p, op) == pc[p] = "committed" /\ req[p].op = op

\* ----------------------------------------------------------- the event bus
Kinds == {"ConfigurationCreated", "ConfigurationUpdated", "ConfigurationDeleted"}

\* Callables a caller can hand to on(): a plain function, a coroutine
\* function, and a callable object (a functools.partial of a plain function,
\* an instance with __call__), which has no __name__.
Handlers == {"sync_handler", "async_handler", "callable_object"}

\* The sink handlers register_all_event_handlers subscribes, by event type.
AuditHandler(kind) ==
    CASE kind = "ConfigurationCreated" -> "handle_configuration_created_for_audit"
      [] kind = "ConfigurationUpdated" -> "handle_configuration_updated_for_audit"
      [] kind = "ConfigurationDeleted" -> "handle_configuration_deleted_for_audit"

KafkaHandler(kind) ==
    CASE kind = "ConfigurationCreated" -> "handle_configuration_created_for_kafka"
      [] kind = "ConfigurationUpdated" -> "handle_configuration_updated_for_kafka"
      [] kind = "ConfigurationDeleted" -> "handle_configuration_deleted_for_kafka"

SinkHandlers == {AuditHandler(k) : k \in Kinds} \cup {KafkaHandler(k) : k \in Kinds}

\* class EventTopics
CONFIGURATION_CREATED == "configuration.created"

CONFIGURATION_UPDATED == "configuration.updated"

CONFIGURATION_DELETED == "configuration.deleted"

\* Faulty variant of SinkCall: the handler of deletions publishes on the topic
\* of updates.
SinkCallOnUpdatedTopic(handler) ==
    CASE handler = "handle_configuration_created_for_audit" ->
            [sink |-> "log_audit_event", label |-> "CREATE"]
      [] handler = "handle_configuration_updated_for_audit" ->
            [sink |-> "log_audit_event", label |-> "UPDATE"]
      [] handler = "handle_configuration_deleted_for_audit" ->
            [sink |-> "log_audit_event", label |-> "DELETE"]
      [] handler = "handle_configuration_created_for_kafka" ->
            [sink |-> "DomainEventsConnector.emit", label |-> CONFIGURATION_CREATED]
      [] handler = "handle_configuration_updated_for_kafka" ->
            [sink |-> "DomainEventsConnector.emit", label |-> CONFIGURATION_UPDATED]
      [] handler = "handle_configuration_deleted_for_kafka" ->
            [sink |-> "DomainEventsConnector.emit", label |-> CONFIGURATION_UPDATED]

\* The call each sink handler makes to its sink: log_audit_event with its
\* action, or DomainEventsConnector.emit with its topic.
SinkCall(handler) ==
    CASE handler = "handle_configuration_created_for_audit" ->
            [sink |-> "log_audit_event", label |-> "CREATE"]
      [] handler = "handle_configuration_updated_for_audit" ->
            [sink |-> "log_audit_event", label |-> "UPDATE"]
      [] handler = "handle_configuration_deleted_for_audit" ->
            [sink |-> "log_audit_event", label |-> "DELETE"]
      [] handler = "handle_configuration_created_for_kafka" ->
            [sink |-> "DomainEventsConnector.emit", label |-> CONFIGURATION_CREATED]
      [] handler = "handle_configuration_updated_for_kafka" ->
            [sink |-> "DomainEventsConnector.emit", label |-> CONFIGURATION_UPDATED]
      [] handler = "handle_configuration_deleted_for_kafka" ->
            [sink |-> "DomainEventsConnector.emit", label |-> CONFIGURATION_DELETED]

\* What can fail while a handler runs: the import of the connector
\* (_get_domain_events_connector), the construction of DomainEventMeta or the
\* connector's emit in a message-bus handler; the audit-log call in an audit
\* handler; the handler itself when it is a caller's.
FaultsOf(handler) ==
    IF handler \in {KafkaHandler(k) : k \in Kinds} THEN {"connector", "meta", "emit"}
    ELSE IF handler \in {AuditHandler(k) : k \in Kinds} THEN {"log_audit_event"}
    ELSE {"handler"}

\* A handler call that emit has only scheduled.
Scheduled == [state |-> "scheduled", sink |-> << >>, fault |-> "none", logged |-> FALSE]

\* Faulty variant of KafkaBody: the try block is missing.
KafkaBodyWithoutTry(handler, fault) ==
    [state |-> IF fault = "none" THEN "done" ELSE "raised",
     sink |-> IF fault \in {"connector", "meta"} THEN << >>
              ELSE <<[call |-> SinkCall(handler), failed |-> fault = "emit"]>>,
     fault |-> fault,
     logged |-> FALSE]

\* The body of a message-bus handler: inside try, the connector is loaded,
\* the metadata built and the connector's emit awaited once; an Exception of
\* any of the three is logged by the except block and the handler returns.
KafkaBody(handler, fault) ==
    [state |-> "done",
     sink |-> IF fault \in {"connector", "meta"} THEN << >>
              ELSE <<[call |-> SinkCall(handler), failed |-> fault = "emit"]>>,
     fault |-> fault,
     logged |-> fault # "none"]

\* The body of an audit handler: one log_audit_event call, outside any try.
AuditBody(handler, fault) ==
    [state |-> IF fault = "none" THEN "done" ELSE "raised",
     sink |-> <<[call |-> SinkCall(handler), failed |-> fault # "none"]>>,
     fault |-> fault,
     logged |-> FALSE]

\* One run of a handler to its end: its state, the calls it made to its sink,
\* what failed on the way and whether the handler logged the failure.
Body(handler, fault) ==
    IF handler \in {KafkaHandler(k) : k \in Kinds} THEN KafkaBody(handler, fault)
    ELSE IF handler \in {AuditHandler(k) : k \in Kinds} THEN AuditBody(handler, fault)
    ELSE [state |-> IF fault = "none" THEN "done" ELSE "raised",
          sink |-> << >>, fault |-> fault, logged |-> FALSE]

\* asyncio.iscoroutinefunction(handler): the sink handlers are all async def.
IsCoroutineFunction(handler) == handler = "async_handler" \/ handler \in SinkHandlers

\* Whether handler.__name__ can be read.
HasName(handler) == handler # "callable_object"

\* self._handlers[event_type], nothing when event_type is no key of the dict.
HandlersOf(table, event_type) ==
    IF event_type \in DOMAIN table THEN table[event_type] ELSE << >>

\* Faulty variant of On: the handler is put in front of the list.
OnInFront(table, event_type, handler) ==
    IF event_type \in DOMAIN table
    THEN [table EXCEPT ![event_type] = <<handler>> \o @]
    ELSE (event_type :> <<handler>>) @@ table

\* The dict after on(event_type, handler).
On(table, event_type, handler) ==
    IF event_type \in DOMAIN table
    THEN [table EXCEPT ![event_type] = Append(@, handler)]
    ELSE (event_type :> <<handler>>) @@ table

\* Faulty variant of RunsAsTask: a coroutine handler is run to its end inside emit.
RunsInline(handler, in_loop) == FALSE

\* A coroutine function met while an event loop is running is handed to
\* loop.create_task; everything else is run inside emit (a plain call, or
\* asyncio.run when get_running_loop raised RuntimeError).
RunsAsTask(handler, in_loop) == IsCoroutineFunction(handler) /\ in_loop

\* The outcomes of the handler calls made inside one emit: raises[i] says
\* what fails while the i-th handler runs there ("none": nothing).  A task
\* only scheduled runs nothing inside emit.
Raises(hs, in_loop) ==
    {raises \in [1 .. Len(hs) -> {"none"} \cup UNION {FaultsOf(hs[i]) : i \in 1 .. Len(hs)}] :
        \A i \in 1 .. Len(hs) :
            /\ raises[i] \in {"none"} \cup FaultsOf(hs[i])
            /\ raises[i] # "none" => ~RunsAsTask(hs[i], in_loop)}

\* The for loop of emit over the handlers hs, from position i.  An exception
\* of a handler is caught and logged with handler.__name__; reading a
\* __name__ that does not exist raises AttributeError inside the except
\* block, which leaves emit.  Result: the call log, and whether emit raised.
RECURSIVE Dispatch(_, _, _, _, _, _)
Dispatch(hs, i, event, in_loop, raises, log) ==
    IF i > Len(hs) THEN [calls |-> log, raised |-> FALSE]
    ELSE LET handler == hs[i]
             call(run) == [handler |-> handler, kind |-> event.kind,
                           rid |-> event.rid, state |-> run.state,
                           sink |-> run.sink, fault |-> run.fault,
                           logged |-> run.logged]
         IN  IF RunsAsTask(handler, in_loop)
             THEN Dispatch(hs, i + 1, event, in_loop, raises,
                           Append(log, call(Scheduled)))
             ELSE IF Body(handler, raises[i]).state = "done"
             THEN Dispatch(hs, i + 1, event, in_loop, raises,
                           Append(log, call(Body(handler, raises[i]))))
             ELSE IF HasName(handler)
             THEN Dispatch(hs, i + 1, event, in_loop, raises,
                           Append(log, call(Body(handler, raises[i]))))
             ELSE [calls |-> Append(log, call(Body(handler, raises[i]))),
                   raised |-> TRUE]

\* What the call log keeps when the next emit begins: the tasks earlier emits
\* created that the event loop has not run yet.
RECURSIVE StillScheduled(_)
StillScheduled(log) ==
    IF log = << >> THEN << >>
    ELSE IF Head(log).state = "scheduled"
    THEN <<Head(log)>> \o StillScheduled(Tail(log))
    ELSE StillScheduled(Tail(log))

\* configuration_events.emit(event) as the last statement but one of a
\* repository method running on the event loop, then its return: the value
\* `entity`, unless emit raised.
EmitAndReturn(p, event, entity) ==
    /\ events' = Emit(events, event)
    /\ \E raises \in Raises(HandlersOf(handlers, event.kind), TRUE) :
          LET d == Dispatch(HandlersOf(handlers, event.kind), 1, event, TRUE,
                            raises, StillScheduled(calls))
          IN  /\ calls' = d.calls
              /\ IF d.raised
                 THEN Finish(p, "handler_error", NullRow)
                 ELSE Finish(p, "ok", entity)

\* ------------------------------------------------------------------ Create
\* create_configuration up to its first await: the existence check.  Nothing
\* on the way inspects key, label or data_type.
CreateConfiguration(p, key, label, data_type, lists, parent, correlation_id) ==
    /\ pc[p] = "idle"
    /\ nreq < MaxRequests
    /\ nreq' = nreq + 1
    /\ IF GetByKey(store, key) # NullRow
       THEN \* raise ValueError("... already exists")
            /\ ret' = [ret EXCEPT ![p] = Result("duplicate_key", NullRow)]
            /\ UNCHANGED <<pc, req, sess>>
       ELSE /\ pc' = [pc EXCEPT ![p] = "create"]
            /\ req' = [req EXCEPT ![p] =
                          [NoRequest EXCEPT !.op = "create", !.rid = nreq + 1,
                              !.key = key, !.label = label,
                              !.data_type = data_type, !.lists = lists,
                              !.parent_config_id = parent,
                              !.correlation_id = correlation_id]]
            /\ ret' = [ret EXCEPT ![p] = NoResult]
            /\ UNCHANGED sess
    /\ UNCHANGED <<store, nextId, now, events, commits, handlers, calls, sublists>>

\* create_configuration of a Configuration of type string without sub-lists,
\* called without a correlation id.
CreateRequest(p, key, label, parent) ==
    CreateConfiguration(p, key, label, "string", NoLists, parent, PyNone)

\* The entity is built with a fresh uuid4 and active=True, its lists are
\* encoded into the model, the model is added to the session and flushed: the
\* INSERT runs, stamping created_at and updated_at.  The entity to return is
\* read back from the model.
CreateFlush(p, fail) ==
    /\ pc[p] = "create"
    /\ LET model == [id |-> nextId, key |-> req[p].key, label |-> req[p].label,
                     data_type |-> req[p].data_type, active |-> TRUE,
                     parent_config_id |-> req[p].parent_config_id,
                     created_at |-> now, updated_at |-> now]
           columns == [f \in ListFields |-> EncodeList(f, req[p].lists[f])]
       IN  /\ ~Blocked(p, None, model)
           /\ IF fail \/ UniqueViolation(store, model, None)
              THEN /\ Finish(p, "store_error", NullRow)
                   /\ UNCHANGED <<nextId, now, sublists>>
              ELSE /\ nextId' = nextId + 1
                   /\ now' = now + 1
                   /\ pc' = [pc EXCEPT ![p] = "flushed"]
                   /\ sess' = [sess EXCEPT ![p] =
                                  [NoSession EXCEPT !.model = model, !.stmt = "insert"]]
                   /\ sublists' =
                         [phase |-> "decoded", config |-> req[p].lists,
                          model |-> columns,
                          domain |-> [f \in ListFields |-> DecodeList(f, columns[f])]]
                   /\ UNCHANGED <<req, ret>>
    /\ UNCHANGED <<store, nreq, events, commits, handlers, calls>>

\* session.commit() of create.
CreateCommit(p, fail) ==
    /\ pc[p] = "flushed"
    /\ req[p].op = "create"
    /\ IF fail
       THEN /\ Finish(p, "store_error", NullRow)
            /\ UNCHANGED <<store, commits>>
       ELSE /\ store' = ApplyStmt(store, sess[p])
            /\ commits' = Append(commits, Committed(p))
            /\ pc' = [pc EXCEPT ![p] = "committed"]
            /\ UNCHANGED <<req, sess, ret>>
    /\ UNCHANGED <<nextId, now, nreq, events, handlers, calls, sublists>>

\* After the commit: ConfigurationCreated is built and emitted, the entity returned.
CreateEmit(p) ==
    /\ AfterCommit(p, "create")
    /\ EmitAndReturn(p, Event("ConfigurationCreated", sess[p].model, EmptyMap,
                              req[p].rid, req[p].correlation_id),
                     sess[p].model)
    /\ UNCHANGED <<store, nextId, now, nreq, commits, handlers, sublists>>

Create(p, labels) ==
    \/ \E key \in Keys, label \in labels, parent \in KnownIds \cup {None} :
          CreateRequest(p, key, label, parent)
    \/ \E fail \in BOOLEAN : CreateFlush(p, fail)
    \/ \E fail \in BOOLEAN : CreateCommit(p, fail)
    \/ CreateEmit(p)

\* ------------------------------------------------------------------ Update
\* Values a caller can pass for a field of **updates.
FieldValues(f) ==
    CASE f = "key" -> Keys
      [] f = "label" -> Labels
      [] f = "parent_config_id" -> KnownIds \cup {None}
      [] f = "id" -> KnownIds
      [] f = "created_at" -> {Epoch}

RECURSIVE MapsOver(_)
MapsOver(D) ==
    IF D = {} THEN {EmptyMap}
    ELSE LET f == CHOOSE x \in D : TRUE
         IN  {(f :> v) @@ m : v \in FieldValues(f), m \in MapsOver(D \ {f})}

\* The partial-field maps a caller passes to update_configuration.
UpdateMaps(sets) == UNION {MapsOver(D) : D \in sets}

\* Faulty variant of PopKey: the key is not dropped.
KeepKey(updates) == updates

\* updates.pop("key", None)
PopKey(updates) == [f \in DOMAIN updates \ {"key"} |-> updates[f]]

\* The dict update_configuration hands to repository.update: req[p].updates
\* holds the caller's keyword arguments.
RepoUpdates(p) == PopKey(req[p].updates)

\* Faulty variant of SetAttrs: the setattr loop is missing.
KeepAttrs(model, updates) == model

\* for key, value in updates.items(): setattr(model, key, value)
SetAttrs(model, updates) ==
    [f \in DOMAIN model |-> IF f \in DOMAIN updates THEN updates[f] ELSE model[f]]

\* update_configuration up to the first await of repository.update: the SELECT.
UpdateConfiguration(p, config_id, correlation_id, updates) ==
    /\ pc[p] = "idle"
    /\ nreq < MaxRequests
    /\ nreq' = nreq + 1
    /\ IF GetById(store, config_id) = NullRow
       THEN \* return None
            /\ ret' = [ret EXCEPT ![p] = Result("not_found", NullRow)]
            /\ UNCHANGED <<pc, req, sess>>
       ELSE /\ pc' = [pc EXCEPT ![p] = "update"]
            /\ req' = [req EXCEPT ![p] =
                          [NoRequest EXCEPT !.op = "update", !.rid = nreq + 1,
                              !.config_id = config_id, !.updates = updates,
                              !.correlation_id = correlation_id]]
            /\ sess' = [sess EXCEPT ![p] =
                           [NoSession EXCEPT !.model = GetById(store, config_id)]]
            /\ ret' = [ret EXCEPT ![p] = NoResult]
    /\ UNCHANGED <<store, nextId, now, events, commits, handlers, calls, sublists>>

\* update_configuration(config_id, **updates), called without a correlation id.
UpdateRequest(p, config_id, updates) ==
    UpdateConfiguration(p, config_id, PyNone, updates)

\* The setattr loop and session.flush(): an UPDATE of the columns whose value
\* changed, WHERE id = the loaded primary key; onupdate stamps updated_at.
\* No column changed: no statement.  No row matched: StaleDataError.
UpdateFlush(p, fail) ==
    /\ pc[p] = "update"
    /\ LET old == sess[p].model
           new == SetAttrs(old, RepoUpdates(p))
           changed == {f \in DOMAIN old : new[f] # old[f]}
           set == [f \in changed \cup {"updated_at"} |->
                      IF f = "updated_at" THEN now ELSE new[f]]
       IN  IF changed = {}
           THEN /\ ~fail
                /\ pc' = [pc EXCEPT ![p] = "flushed"]
                /\ UNCHANGED <<sess, req, ret, now>>
           ELSE /\ ~Blocked(p, old.id, [key |-> IF "key" \in changed THEN new.key ELSE "",
                                        id |-> IF "id" \in changed THEN new.id ELSE None])
                /\ IF \/ fail
                      \/ old.id \notin Ids(store)
                      \/ UniqueViolation(store \ {r \in store : r.id = old.id},
                             [key |-> IF "key" \in changed THEN new.key ELSE "",
                              id |-> IF "id" \in changed THEN new.id ELSE None], None)
                   THEN /\ Finish(p, "store_error", NullRow)
                        /\ UNCHANGED now
                   ELSE /\ now' = now + 1
                        /\ pc' = [pc EXCEPT ![p] = "flushed"]
                        /\ sess' = [sess EXCEPT ![p] =
                                      [NoSession EXCEPT
                                          !.model = [new EXCEPT !.updated_at = now],
                                          !.stmt = "update", !.target = old.id,
                                          !.set = set]]
                        /\ UNCHANGED <<req, ret>>
    /\ UNCHANGED <<store, nextId, nreq, events, commits, handlers, calls, sublists>>

\* session.commit() of update.
UpdateCommit(p, fail) ==
    /\ pc[p] = "flushed"
    /\ req[p].op = "update"
    /\ IF fail
       THEN /\ Finish(p, "store_error", NullRow)
            /\ UNCHANGED <<store, commits>>
       ELSE /\ store' = ApplyStmt(store, sess[p])
            /\ commits' = Append(commits, Committed(p))
            /\ pc' = [pc EXCEPT ![p] = "committed"]
            /\ UNCHANGED <<req, sess, ret>>
    /\ UNCHANGED <<nextId, now, nreq, events, handlers, calls, sublists>>

\* After the commit: ConfigurationUpdated is built and emitted, the entity returned.
UpdateEmit(p) ==
    /\ AfterCommit(p, "update")
    /\ EmitAndReturn(p, Event("ConfigurationUpdated", sess[p].model, RepoUpdates(p),
                              req[p].rid, req[p].correlation_id),
                     sess[p].model)
    /\ UNCHANGED <<store, nextId, now, nreq, commits, handlers, sublists>>

Update(p, sets) ==
    \/ \E config_id \in KnownIds, updates \in UpdateMaps(sets) :
          UpdateRequest(p, config_id, updates)
    \/ \E fail \in BOOLEAN : UpdateFlush(p, fail)
    \/ \E fail \in BOOLEAN : UpdateCommit(p, fail)
    \/ UpdateEmit(p)

\* ------------------------------------------------------------------ Delete
\* delete_configuration up to the first await of repository.delete: the SELECT.
DeleteConfiguration(p, config_id, correlation_id) ==
    /\ pc[p] = "idle"
    /\ nreq < MaxRequests
    /\ nreq' = nreq + 1
    /\ IF GetById(store, config_id) = NullRow
       THEN \* return False
            /\ ret' = [ret EXCEPT ![p] = Result("not_found", NullRow)]
            /\ UNCHANGED <<pc, req, sess>>
       ELSE /\ pc' = [pc EXCEPT ![p] = "delete"]
            /\ req' = [req EXCEPT ![p] =
                          [NoRequest EXCEPT !.op = "delete", !.rid = nreq + 1,
                              !.config_id = config_id,
                              !.correlation_id = correlation_id]]
            /\ sess' = [sess EXCEPT ![p] =
                           [NoSession EXCEPT !.model = GetById(store, config_id)]]
            /\ ret' = [ret EXCEPT ![p] = NoResult]
    /\ UNCHANGED <<store, nextId, now, events, commits, handlers, calls, sublists>>

\* delete_configuration(config_id), called without a correlation id.
DeleteRequest(p, config_id) == DeleteConfiguration(p, config_id, PyNone)

\* session.delete(model) and session.flush(): DELETE WHERE id = the loaded
\* primary key.  A DELETE that matches no row only warns.
DeleteFlush(p, fail) ==
    /\ pc[p] = "delete"
    /\ ~Blocked(p, sess[p].model.id, [key |-> "", id |-> None])
    /\ IF fail
       THEN Finish(p, "store_error", NullRow)
       ELSE /\ pc' = [pc EXCEPT ![p] = "flushed"]
            /\ sess' = [sess EXCEPT ![p].stmt = "delete",
                                    ![p].target = sess[p].model.id]
            /\ UNCHANGED <<req, ret>>
    /\ UNCHANGED <<store, nextId, now, nreq, events, commits, handlers, calls, sublists>>

\* Faulty variant of DeleteCommit: the row is kept as a tombstone.
DeleteCommitKeepingRow(p, fail) ==
    /\ pc[p] = "flushed"
    /\ req[p].op = "delete"
    /\ IF fail
       THEN /\ Finish(p, "store_error", NullRow)
            /\ UNCHANGED <<store, commits>>
       ELSE /\ store' = store
            /\ commits' = Append(commits, Committed(p))
            /\ pc' = [pc EXCEPT ![p] = "committed"]
            /\ UNCHANGED <<req, sess, ret>>
    /\ UNCHANGED <<nextId, now, nreq, events, handlers, calls, sublists>>

\* session.commit() of delete.
DeleteCommit(p, fail) ==
    /\ pc[p] = "flushed"
    /\ req[p].op = "delete"
    /\ IF fail
       THEN /\ Finish(p, "store_error", NullRow)
            /\ UNCHANGED <<store, commits>>
       ELSE /\ store' = ApplyStmt(store, sess[p])
            /\ commits' = Append(commits, Committed(p))
            /\ pc' = [pc EXCEPT ![p] = "committed"]
            /\ UNCHANGED <<req, sess, ret>>
    /\ UNCHANGED <<nextId, now, nreq, events, handlers, calls, sublists>>

\* After the commit: ConfigurationDeleted is built from the entity read before
\* the delete and emitted; True is returned.
DeleteEmit(p) ==
    /\ AfterCommit(p, "delete")
    /\ EmitAndReturn(p, Event("ConfigurationDeleted", sess[p].model, EmptyMap,
                              req[p].rid, req[p].correlation_id),
                     NullRow)
    /\ UNCHANGED <<store, nextId, now, nreq, commits, handlers, sublists>>

Delete(p) ==
    \/ \E config_id \in KnownIds : DeleteRequest(p, config_id)
    \/ \E fail \in BOOLEAN : DeleteFlush(p, fail)
    \/ \E fail \in BOOLEAN : DeleteCommit(p, fail)
    \/ DeleteEmit(p)

\* ------------------------------------------------------- GetParentOptions
\* The page of SELECT ... LIMIT :limit OFFSET 0 without ORDER BY: `limit`
\* rows of the table (all of them when it has no more), in the order and
\* choice the database sees fit.
Pages(S, limit) ==
    {P \in SUBSET S : Cardinality(P) = IF Cardinality(S) < limit
                                       THEN Cardinality(S) ELSE limit}

\* The state of the traversal: the set excluded_ids, the ids find_descendants
\* has been called with, in order, and the deepest nesting of its calls.
Traversal(excluded_ids) ==
    [excluded_ids |-> excluded_ids, visited |-> << >>, depth |-> 0]

\* if child.id not in excluded_ids
Unvisited(child, excluded_ids) == child.id \notin excluded_ids

\* find_descendants, called at nesting `level`: the children of parent_id are
\* scanned; a child not yet excluded is excluded and its own children are
\* visited by a nested call.  A call nested deeper than the interpreter allows
\* is not made (RecursionError leaves the traversal).
RECURSIVE FindDescendants(_, _, _, _)
RECURSIVE VisitChildren(_, _, _, _)
FindDescendants(configs, parent_id, t, level) ==
    IF level > RecursionLimit
    THEN [t EXCEPT !.depth = level]
    ELSE VisitChildren(configs, {c \in configs : c.parent_config_id = parent_id},
                       [t EXCEPT !.visited = Append(@, parent_id),
                                 !.depth = IF level > @ THEN level ELSE @],
                       level)

VisitChildren(configs, children, t, level) ==
    IF children = {} \/ t.depth > RecursionLimit THEN t
    ELSE LET child == CHOOSE c \in children : TRUE
         IN  VisitChildren(configs, children \ {child},
                 IF Unvisited(child, t.excluded_ids)
                 THEN FindDescendants(configs, child.id,
                          [t EXCEPT !.excluded_ids = @ \cup {child.id}], level + 1)
                 ELSE t,
                 level)

\* find_descendants(current_config_id) with excluded_ids = {current_config_id};
\* no traversal when no current id is given.
Descend(configs, current_config_id) ==
    IF current_config_id = None THEN Traversal({})
    ELSE FindDescendants(configs, current_config_id,
                         Traversal({current_config_id}), 1)

\* The configurations get_parent_options returns for the page `configs`.
ParentOptions(configs, current_config_id) ==
    IF current_config_id = None THEN configs
    ELSE {c \in configs :
            c.id \notin Descend(configs, current_config_id).excluded_ids}

\* get_parent_options: one list_all(limit=1000), then the traversal and the
\* filter; a RecursionError of the traversal leaves the call.
GetParentOptions(p, current_config_id) ==
    /\ pc[p] = "idle"
    /\ nreq < MaxRequests
    /\ nreq' = nreq + 1
    /\ \E configs \in Pages(store, ParentOptionsLimit) :
          ret' = [ret EXCEPT ![p] =
                     IF Descend(configs, current_config_id).depth > RecursionLimit
                     THEN [NoResult EXCEPT
                              !.status = "recursion_error", !.arg = current_config_id,
                              !.visited = Descend(configs, current_config_id).visited]
                     ELSE [NoResult EXCEPT
                              !.status = "options", !.arg = current_config_id,
                              !.items = ParentOptions(configs, current_config_id),
                              !.visited = Descend(configs, current_config_id).visited]]
    /\ UNCHANGED <<store, nextId, now, pc, req, sess, events, commits, handlers, calls, sublists>>

\* --------------------------------------------------------------- Get, List
\* get_configuration: the SELECT of get_by_id; the entity, or None.
Get(p, config_id) ==
    /\ pc[p] = "idle"
    /\ nreq < MaxRequests
    /\ nreq' = nreq + 1
    /\ ret' = [ret EXCEPT ![p] =
                  [NoResult EXCEPT
                      !.status = IF GetById(store, config_id) = NullRow
                                 THEN "not_found" ELSE "found",
                      !.entity = GetById(store, config_id),
                      !.arg = config_id]]
    /\ UNCHANGED <<store, nextId, now, pc, req, sess, events, commits, handlers, calls, sublists>>

\* The values a caller passes for limit and for offset.
Limits == 0 .. 2

Offsets == 0 .. 2

\* Faulty variant of PagesFrom: the LIMIT clause is missing.
PagesWithoutLimit(S, limit, offset) ==
    LET rest == IF Cardinality(S) > offset THEN Cardinality(S) - offset ELSE 0
    IN  {P \in SUBSET S : Cardinality(P) = rest}

\* The page of SELECT ... LIMIT :limit OFFSET :offset without ORDER BY: the
\* database puts the rows in an order of its choice, skips `offset` of them
\* and returns the next `limit` (fewer when the table ends).
PagesFrom(S, limit, offset) ==
    LET rest == IF Cardinality(S) > offset THEN Cardinality(S) - offset ELSE 0
    IN  {P \in SUBSET S : Cardinality(P) = IF rest < limit THEN rest ELSE limit}

\* list_configurations up to the second await of list_all: the first SELECT
\* has read every row and total is their number.
ListCount(p, limit, offset) ==
    /\ pc[p] = "idle"
    /\ nreq < MaxRequests
    /\ nreq' = nreq + 1
    /\ pc' = [pc EXCEPT ![p] = "list"]
    /\ req' = [req EXCEPT ![p] =
                  [NoRequest EXCEPT !.op = "list", !.rid = nreq + 1,
                      !.limit = limit, !.offset = offset]]
    /\ sess' = [sess EXCEPT ![p] = [NoSession EXCEPT !.total = Cardinality(store)]]
    /\ ret' = [ret EXCEPT ![p] = NoResult]
    /\ UNCHANGED <<store, nextId, now, events, commits, handlers, calls, sublists>>

\* The second SELECT of list_all, and the return of (configs, total), which
\* the caller puts into its response next to the limit and offset it asked for.
ListPage(p) ==
    /\ pc[p] = "list"
    /\ \E configs \in PagesFrom(store, req[p].limit, req[p].offset) :
          ret' = [ret EXCEPT ![p] =
                     [NoResult EXCEPT !.status = "page", !.items = configs,
                         !.total = sess[p].total,
                         !.limit = req[p].limit, !.offset = req[p].offset]]
    /\ pc' = [pc EXCEPT ![p] = "idle"]
    /\ req' = [req EXCEPT ![p] = NoRequest]
    /\ sess' = [sess EXCEPT ![p] = NoSession]
    /\ UNCHANGED <<store, nextId, now, nreq, events, commits, handlers, calls, sublists>>

List(p) ==
    \/ \E limit \in Limits, offset \in Offsets : ListCount(p, limit, offset)
    \/ ListPage(p)

\* ------------------------------------------------- subscriptions and tasks
\* Handlers subscribed so far, over all event types.
RECURSIVE Subscribed(_, _)
Subscribed(table, types) ==
    IF types = {} THEN 0
    ELSE LET t == CHOOSE x \in types : TRUE
         IN  Len(table[t]) + Subscribed(table, types \ {t})

\* configuration_events.on(event_type, handler), before any request is served.
Subscribe(event_type, handler) ==
    /\ nreq = 0
    /\ Subscribed(handlers, DOMAIN handlers) < MaxHandlers
    /\ handlers' = On(handlers, event_type, handler)
    /\ UNCHANGED <<store, nextId, now, nreq, pc, req, sess, ret, events, commits, calls, sublists>>

\* The dict after the six on() calls of register_all_event_handlers.
AllRegistered(table) ==
    On(On(On(On(On(On(table,
        "ConfigurationCreated", AuditHandler("ConfigurationCreated")),
        "ConfigurationUpdated", AuditHandler("ConfigurationUpdated")),
        "ConfigurationDeleted", AuditHandler("ConfigurationDeleted")),
        "ConfigurationCreated", KafkaHandler("ConfigurationCreated")),
        "ConfigurationUpdated", KafkaHandler("ConfigurationUpdated")),
        "ConfigurationDeleted", KafkaHandler("ConfigurationDeleted"))

\* register_all_event_handlers(), called by whoever sets the process up.
RegisterAllEventHandlers ==
    /\ handlers = EmptyMap
    /\ nreq = 0
    /\ handlers' = AllRegistered(handlers)
    /\ UNCHANGED <<store, nextId, now, nreq, pc, req, sess, ret, events, commits, calls, sublists>>

\* The event loop runs the oldest task emit has created and not yet run: the
\* body of the coroutine handler, in which something fails (raises) or
\* nothing does; an exception the body lets out stays in the task.
RunTask(raises) ==
    /\ \E i \in DOMAIN calls :
          /\ calls[i].state = "scheduled"
          /\ \A j \in 1 .. (i - 1) : calls[j].state # "scheduled"
          /\ \E fault \in IF raises THEN FaultsOf(calls[i].handler) ELSE {"none"} :
                calls' = [calls EXCEPT
                             ![i].state = Body(calls[i].handler, fault).state,
                             ![i].sink = Body(calls[i].handler, fault).sink,
                             ![i].fault = Body(calls[i].handler, fault).fault,
                             ![i].logged = Body(calls[i].handler, fault).logged]
    /\ UNCHANGED <<store, nextId, now, nreq, pc, req, sess, ret, events, commits, handlers, sublists>>

\* emit called from synchronous code, with no event loop running: a coroutine
\* handler is run to its end by asyncio.run.
DirectEmit(p, kind) ==
    /\ pc[p] = "idle"
    /\ nreq < MaxRequests
    /\ nreq' = nreq + 1
    /\ LET event == Event(kind, NullRow, EmptyMap, nreq + 1, PyNone)
       IN  /\ events' = Emit(events, event)
           /\ \E raises \in Raises(HandlersOf(handlers, kind), FALSE) :
                 LET d == Dispatch(HandlersOf(handlers, kind), 1, event, FALSE,
                                   raises, StillScheduled(calls))
                 IN  /\ calls' = d.calls
                     /\ ret' = [ret EXCEPT ![p] =
                                   Result(IF d.raised THEN "handler_error"
                                          ELSE "emitted", NullRow)]
    /\ UNCHANGED <<store, nextId, now, pc, req, sess, commits, handlers, sublists>>

\* ---------------------------------------------------------- specifications
Main == "p1"

\* One caller: each request is finished before the next is issued.
Next ==
    \/ Create(Main, Labels)
    \/ Update(Main, FieldSets)
    \/ Delete(Main)
    \/ \E current \in KnownIds \cup {None} : GetParentOptions(Main, current)
    \/ \E config_id \in KnownIds : Get(Main, config_id)

Spec == Init /\ [][Next]_vars

\* One caller that builds and rearranges the hierarchy: the only field it
\* updates is parent_config_id.
NextHierarchy ==
    \/ Create(Main, {"Old"})
    \/ Update(Main, {{"parent_config_id"}})
    \/ Delete(Main)

SpecHierarchy == Init /\ [][NextHierarchy]_vars

\* Two callers whose requests interleave at every await.
NextRace ==
    \E p \in Procs : Create(p, {"Old"}) \/ Update(p, RaceFieldSets) \/ Delete(p)

SpecRace == Init /\ [][NextRace]_vars

\* The tree resolver over every store of at most MaxTreeRows rows, whatever
\* its parent references (none is validated by create or update).
TreeKeys == <<"k", "K", "m", "n", "o">>

TreeStores ==
    UNION {{ {[NullRow EXCEPT !.id = i, !.key = TreeKeys[i], !.label = "Old",
                              !.data_type = "string", !.active = TRUE,
                              !.parent_config_id = par[i]] : i \in 1 .. n}
             : par \in [1 .. n -> (1 .. n) \cup {None, StrayId}] }
           : n \in 0 .. MaxTreeRows}

InitTree ==
    /\ store \in TreeStores
    /\ nextId = Cardinality(store) + 1
    /\ now = 1
    /\ nreq = 0
    /\ pc = [p \in Procs |-> "idle"]
    /\ req = [p \in Procs |-> NoRequest]
    /\ sess = [p \in Procs |-> NoSession]
    /\ ret = [p \in Procs |-> NoResult]
    /\ events = << >>
    /\ commits = << >>
    /\ handlers = EmptyMap
    /\ calls = << >>
    /\ sublists = NoSublists

NextTree == \E current \in KnownIds \cup {None} : GetParentOptions(Main, current)

SpecTree == InitTree /\ [][NextTree]_vars

\* One caller that creates, deletes and reads.
NextRead ==
    \/ Create(Main, {"Old"})
    \/ Delete(Main)
    \/ \E config_id \in KnownIds : Get(Main, config_id)
    \/ List(Main)
    \/ \E current \in KnownIds \cup {None} : GetParentOptions(Main, current)

SpecRead == Init /\ [][NextRead]_vars

\* The event bus: handlers are subscribed, one caller mutates (its emits run
\* on the event loop), synchronous code emits on its own, and the event loop
\* runs the tasks the emits created.
NextBus ==
    \/ \E event_type \in Kinds, handler \in Handlers : Subscribe(event_type, handler)
    \/ RegisterAllEventHandlers
    \/ CreateRequest(Main, "k", "Old", None)
    \/ CreateFlush(Main, FALSE)
    \/ CreateCommit(Main, FALSE)
    \/ CreateEmit(Main)
    \/ \E config_id \in KnownIds : UpdateRequest(Main, config_id, "label" :> "New")
    \/ UpdateFlush(Main, FALSE)
    \/ UpdateCommit(Main, FALSE)
    \/ UpdateEmit(Main)
    \/ \E config_id \in KnownIds : DeleteRequest(Main, config_id)
    \/ DeleteFlush(Main, FALSE)
    \/ DeleteCommit(Main, FALSE)
    \/ DeleteEmit(Main)
    \/ \E kind \in Kinds : DirectEmit(Main, kind)
    \/ \E raises \in BOOLEAN : RunTask(raises)

SpecBus == Init /\ [][NextBus]_vars

\* Two callers that page through a store nobody changes.
NextPaging == \E p \in Procs : List(p)

SpecPaging == InitTree /\ [][NextPaging]_vars

\* The storage representation of the sub-lists: a Configuration with three
\* non-empty lists is encoded by create, lists are replaced by update, and
\* the columns are read back.
InitLists ==
    /\ store = {}
    /\ nextId = 1
    /\ now = 1
    /\ nreq = 0
    /\ pc = [p \in Procs |-> "idle"]
    /\ req = [p \in Procs |-> NoRequest]
    /\ sess = [p \in Procs |-> NoSession]
    /\ ret = [p \in Procs |-> NoResult]
    /\ events = << >>
    /\ commits = << >>
    /\ handlers = EmptyMap
    /\ calls = << >>
    /\ \E rules \in ListsOf("validation_rules"),
          conditions \in ListsOf("parent_conditions"),
          translations \in ListsOf("translations") :
          sublists = [NoSublists EXCEPT
                         !.phase = "built",
                         !.config = [f \in ListFields |->
                                        CASE f = "validation_rules" -> rules
                                          [] f = "parent_conditions" -> conditions
                                          [] f = "translations" -> translations]]

NextLists ==
    \/ CreateEncode
    \/ \E field \in ListFields : \E value \in ListsOf(field) : UpdateEncode(field, value)
    \/ ModelToDomain

SpecLists == InitLists /\ [][NextLists]_vars

\* The service as its callers can use it: every argument of
\* create_configuration, update_configuration and delete_configuration,
\* empty strings, a data type outside the closed set and a correlation id
\* included.
KeyInputs == {"k", ""}

LabelInputs == {"Old", ""}

DataTypeInputs == {"number", "boolean", ""}

\* No sub-lists, or two validation rules, a parent condition and a translation.
ListInputs ==
    {NoLists,
     [f \in ListFields |->
         CASE f = "validation_rules" ->
                 <<[rule_type |-> PyStr("min"), value |-> PyInt("1")],
                   [rule_type |-> PyStr("max"), value |-> PyInt("10")]>>
           [] f = "parent_conditions" ->
                 <<[operator |-> PyStr("between"), value |-> PyList(<<"1", "10">>),
                    default_value |-> PyStr("a")]>>
           [] f = "translations" ->
                 <<[language |-> PyStr("en"), label |-> PyStr("L"),
                    description |-> PyNone]>>]}

CorrelationIds == {PyNone, PyStr(""), PyStr("corr-123")}

NextService ==
    \/ \E key \in KeyInputs, label \in LabelInputs, data_type \in DataTypeInputs,
          lists \in ListInputs, correlation_id \in CorrelationIds :
          CreateConfiguration(Main, key, label, data_type, lists, None, correlation_id)
    \/ CreateFlush(Main, FALSE)
    \/ \E fail \in BOOLEAN : CreateCommit(Main, fail)
    \/ CreateEmit(Main)
    \/ \E config_id \in KnownIds, correlation_id \in CorrelationIds :
          UpdateConfiguration(Main, config_id, correlation_id, "label" :> "New")
    \/ UpdateFlush(Main, FALSE)
    \/ UpdateCommit(Main, FALSE)
    \/ UpdateEmit(Main)
    \/ \E config_id \in KnownIds, correlation_id \in CorrelationIds :
          DeleteConfiguration(Main, config_id, correlation_id)
    \/ DeleteFlush(Main, FALSE)
    \/ DeleteCommit(Main, FALSE)
    \/ DeleteEmit(Main)
    \/ \E config_id \in KnownIds : Get(Main, config_id)

SpecService == Init /\ [][NextService]_vars

\* ================================================================== claims
Ops == {"create", "update", "delete"}

KindOf(op) ==
    CASE op = "create" -> "ConfigurationCreated"
      [] op = "update" -> "ConfigurationUpdated"
      [] op = "delete" -> "ConfigurationDeleted"

CommittedRids == {commits[i].rid : i \in DOMAIN commits}

EmittedRids == {events[j].rid : j \in DOMAIN events}

\* C1: in every reachable state no two stored Configurations have the same
\* key, whatever the interleaving of Create, Update and Delete calls, two
\* Creates that both passed the existence check included.
C1_KeyUnique ==
    \A r1 \in store, r2 \in store : r1.key = r2.key => r1 = r2

\* A Create has passed its existence check, and another call has since
\* committed a Configuration with the same key.
C1_Witness ==
    \E p \in Procs :
        /\ pc[p] = "create"
        /\ \E r \in store : r.key = req[p].key

\* C2: a Create whose key is the key of a stored Configuration fails with the
\* duplicate-key error at its existence check, stores nothing, emits nothing
\* and leaves the store as it was; a key that differs in case is no duplicate.
C2_DuplicateKeyRejected ==
    [][\A p \in Procs, key \in Keys, label \in Labels, parent \in KnownIds \cup {None} :
          CreateRequest(p, key, label, parent)
          => IF \E r \in store : r.key = key
             THEN /\ ret'[p].status = "duplicate_key"
                  /\ pc'[p] = "idle"
                  /\ store' = store
                  /\ events' = events
                  /\ commits' = commits
             ELSE ret'[p].status # "duplicate_key"]_vars

\* A Create was refused as a duplicate of the stored Configuration.
C2_Witness ==
    /\ ret[Main].status = "duplicate_key"
    /\ store # {}

\* C3: an event is emitted only for a mutation whose commit has succeeded;
\* the store changes only by such a commit; a call that fails at flush or
\* commit has committed nothing, has emitted nothing and leaves the store as
\* it is.
C3_EmitOnlyAfterCommit ==
    /\ [](EmittedRids \subseteq CommittedRids)
    /\ [][/\ store' # store
             => \E p \in Procs :
                   /\ pc[p] = "flushed"
                   /\ pc'[p] = "committed"
                   /\ commits' = Append(commits, Committed(p))
          /\ \A p \in Procs :
                pc[p] # "idle" /\ ret'[p].status = "store_error"
                => /\ store' = store
                   /\ events' = events
                   /\ commits' = commits
                   /\ req[p].rid \notin CommittedRids \cup EmittedRids]_vars

\* One mutation has failed at flush or commit while the event of another,
\* committed one has been emitted.
C3_Witness ==
    /\ \E p \in Procs : ret[p].status = "store_error"
    /\ Len(events) > 0
    /\ store # {}

\* C4: for each kind, the events emitted plus the mutations that have
\* committed and are about to emit equal the committed mutations of that
\* kind; each committed mutation has at most one event, of its own kind and
\* for its own id, and has one as soon as its call has returned.
C4_OneEventPerMutation ==
    /\ \A op \in Ops :
          Cardinality({j \in DOMAIN events : events[j].kind = KindOf(op)})
            + Cardinality({p \in Procs : pc[p] = "committed" /\ req[p].op = op})
          = Cardinality({i \in DOMAIN commits : commits[i].op = op})
    /\ \A i \in DOMAIN commits :
          LET mine == {j \in DOMAIN events : events[j].rid = commits[i].rid}
          IN  /\ Cardinality(mine) <= 1
              /\ mine = {} <=> \E p \in Procs :
                                  pc[p] = "committed" /\ req[p].rid = commits[i].rid
              /\ \A j \in mine :
                    /\ events[j].kind = KindOf(commits[i].op)
                    /\ events[j].config_id = commits[i].id

\* A Create, an Update and a Delete have all succeeded and returned.
C4_Witness ==
    /\ \A p \in Procs : pc[p] = "idle"
    /\ \A op \in Ops : \E j \in DOMAIN events : events[j].kind = KindOf(op)

\* C5: a Create whose key is stored, and an Update or a Delete whose id is not
\* stored, return their failure at once, emit no event and leave the store
\* unchanged.
C5_FailuresEmitNothing ==
    [][\A p \in Procs :
          pc[p] = "idle" /\ nreq' # nreq /\ <<req[p], ret[p]>>' # <<req[p], ret[p]>>
          =>
          /\ \A key \in Keys, label \in Labels, parent \in KnownIds \cup {None} :
                CreateRequest(p, key, label, parent) /\ (\E r \in store : r.key = key)
                => /\ ret'[p].status = "duplicate_key"
                   /\ pc'[p] = "idle"
                   /\ <<store, events, commits>>' = <<store, events, commits>>
          /\ \A config_id \in KnownIds :
                /\ config_id \notin Ids(store)
                /\ \/ DeleteRequest(p, config_id)
                   \/ \E updates \in UpdateMaps(RaceFieldSets) :
                         UpdateRequest(p, config_id, updates)
                => /\ ret'[p].status = "not_found"
                   /\ pc'[p] = "idle"
                   /\ <<store, events, commits>>' = <<store, events, commits>>]_vars

\* A Create was refused as a duplicate and an Update or Delete found no row.
C5_Witness ==
    /\ \E p \in Procs : ret[p].status = "duplicate_key"
    /\ \E p \in Procs : ret[p].status = "not_found"
    /\ store # {}

\* ----------------------------------------------------------- the parent graph
\* The parent of id i in S (None when i is not stored).
ParentOf(S, i) ==
    IF i \in Ids(S) THEN RowById(S, i).parent_config_id ELSE None

RECURSIVE Up(_, _, _)
\* The k-th ancestor of id i in S.
Up(S, i, k) == IF k = 0 THEN i ELSE ParentOf(S, Up(S, i, k - 1))

\* Following parent_config_id from i leads back to i.
OnCycle(S, i) == \E k \in 1 .. Cardinality(S) : Up(S, i, k) = i

\* The ids of the stored transitive descendants of x under parent_config_id.
Descendants(S, x) ==
    {c.id : c \in {d \in S : \E k \in 1 .. Cardinality(S) : Up(S, d.id, k) = x}}

\* C6: GetParentOptions(X) returns exactly the stored Configurations whose id
\* is not X and is not a transitive descendant of X, for every store content
\* and every current id X, stored or not.
C6_ParentOptionsExact ==
    \A p \in Procs :
        ret[p].status = "options" /\ ret[p].arg # None
        => ret[p].items =
             {c \in store : c.id # ret[p].arg /\ c.id \notin Descendants(store, ret[p].arg)}

\* C7: in every reachable state the graph induced by parent_config_id is
\* acyclic and no Configuration is its own parent.
C7_ParentGraphAcyclic ==
    \A r \in store : ~OnCycle(store, r.id)

\* C8: in every reachable state every parent_config_id that is set is the id
\* of a stored Configuration.
C8_ParentExists ==
    \A r \in store :
        r.parent_config_id # None => r.parent_config_id \in Ids(store)

\* C9: an Update that supplies key is accepted, raises no error of its own
\* at flush, commit or return, leaves the stored key as it was and applies
\* the other supplied fields.
C9_KeyIgnoredOnUpdate ==
    [][\A p \in Procs :
          /\ \A config_id \in Ids(store), updates \in UpdateMaps(FieldSets) :
                UpdateRequest(p, config_id, updates) /\ "key" \in DOMAIN updates
                => pc'[p] = "update"
          /\ req[p].op = "update" /\ "key" \in DOMAIN req[p].updates
             /\ sess[p].model.id \in Ids(store)
             => LET id == sess[p].model.id
                    before == RowById(store, id)
                IN  /\ UpdateFlush(p, FALSE) => pc'[p] = "flushed"
                    /\ UpdateCommit(p, FALSE)
                       => /\ pc'[p] = "committed"
                          /\ id \in Ids(store')
                          /\ RowById(store', id).key = before.key
                          /\ \A f \in DOMAIN req[p].updates \ {"key"} :
                                RowById(store', id)[f] = req[p].updates[f]
                    /\ pc[p] = "committed"
                       => /\ UpdateEmit(p)
                             => /\ ret'[p].status = "ok"
                                /\ ret'[p].entity.key = before.key]_vars

\* An Update that supplied another key and another label has committed: the
\* stored row has the new label.
C9_Witness ==
    \E p \in Procs :
        /\ pc[p] = "committed"
        /\ req[p].op = "update"
        /\ DOMAIN req[p].updates = {"key", "label"}
        /\ req[p].updates["key"] # sess[p].model.key
        /\ "label" \in DOMAIN sess[p].set
        /\ \E r \in store : r.id = sess[p].model.id /\ r.label = req[p].updates["label"]

\* C10: whatever partial-field map an Update is given, the entity keeps its
\* id and its created_at.
C10_IdAndCreatedAtKept ==
    [][\A p \in Procs :
          /\ pc[p] = "flushed"
          /\ req[p].op = "update"
          /\ pc'[p] = "committed"
          /\ req[p].config_id \in Ids(store)
          => /\ req[p].config_id \in Ids(store')
             /\ RowById(store', req[p].config_id).created_at
                  = RowById(store, req[p].config_id).created_at]_vars

\* ------------------------------------------------------- the frame of Update
\* The step in which the update of p commits.
UpdateCommits(p) ==
    pc[p] = "flushed" /\ req[p].op = "update" /\ pc'[p] = "committed"

\* The step in which the update of p returns its entity.
UpdateReturns(p) ==
    pc[p] = "committed" /\ req[p].op = "update" /\ ret'[p].status = "ok"

\* The id under which the row updated by p is stored after the commit.
IdAfter(p) ==
    IF "id" \in DOMAIN req[p].updates THEN req[p].updates["id"] ELSE req[p].config_id

C12_ChangesAreSupplied ==
    [][\A p \in Procs :
          UpdateReturns(p)
          => /\ Len(events') = Len(events) + 1
             /\ events'[Len(events')].kind = "ConfigurationUpdated"
             /\ events'[Len(events')].changes = req[p].updates]_vars

\* C12, amended: the changes map of the ConfigurationUpdated event of a
\* successful Update(id, F) has exactly the field names of F other than key,
\* each mapped to the supplied value.
C12_ChangesAreSuppliedExceptKey ==
    [][\A p \in Procs :
          UpdateReturns(p)
          => /\ Len(events') = Len(events) + 1
             /\ events'[Len(events')].kind = "ConfigurationUpdated"
             /\ DOMAIN events'[Len(events')].changes = DOMAIN req[p].updates \ {"key"}
             /\ \A f \in DOMAIN req[p].updates \ {"key"} :
                   events'[Len(events')].changes[f] = req[p].updates[f]]_vars

\* An Update that supplied key and label has returned: its event carries the
\* label alone.
C12_Witness ==
    \E j \in DOMAIN events :
        /\ events[j].kind = "ConfigurationUpdated"
        /\ DOMAIN events[j].changes = {"label"}
        /\ events[j].changes["label"] = "New"
        /\ ret[Main].status = "ok"
        /\ ret[Main].entity.label = "New"
        /\ ret[Main].entity.key \in Keys

\* ------------------------------------------------------------ the event bus
\* The step is a call of emit: the event it was given.
Emitted == events'[Len(events')]

\* The handlers the call log holds for the event of request r, in order.
RECURSIVE CalledFor(_, _)
CalledFor(log, r) ==
    IF log = << >> THEN << >>
    ELSE IF Head(log).rid = r
    THEN <<Head(log).handler>> \o CalledFor(Tail(log), r)
    ELSE CalledFor(Tail(log), r)

\* C13: when a handler registered for the kind of an emitted event raises,
\* as a plain call or under asyncio.run inside emit or later as a task, every
\* other handler registered for that kind is still called or scheduled, and
\* no call or task of another handler is lost.
C13_OtherHandlersStillRun ==
    [][/\ events' # events
          /\ (\E i \in DOMAIN calls' :
                 calls'[i].rid = Emitted.rid /\ calls'[i].state = "raised")
          => CalledFor(calls', Emitted.rid) = HandlersOf(handlers, Emitted.kind)
       /\ events' = events /\ calls' # calls
          => /\ Len(calls') = Len(calls)
             /\ \A i \in DOMAIN calls :
                   calls'[i] # calls[i]
                   => /\ calls[i].state = "scheduled"
                      /\ \A j \in DOMAIN calls \ {i} : calls'[j] = calls[j]]_vars

\* C14: whatever the handlers do, emit returns normally, and a Create, Update
\* or Delete whose commit succeeded returns its success result.
C14_HandlerFailureNotSurfaced ==
    \A p \in Procs : ret[p].status # "handler_error"

\* C15: in the running service every event emitted for a successful mutation
\* is handed exactly once to the audit handler and exactly once to the
\* message-bus handler of its kind, and a handler that has run is not run
\* again.
C15_EachSinkOncePerMutation ==
    [][/\ events' # events
          => \A sink \in {AuditHandler(Emitted.kind), KafkaHandler(Emitted.kind)} :
                Cardinality({i \in DOMAIN calls' :
                                /\ calls'[i].rid = Emitted.rid
                                /\ calls'[i].handler = sink}) = 1
       /\ events' = events => Len(calls') = Len(calls)]_vars

\* C16: the emit of a mutation running on the event loop only schedules a
\* coroutine handler: when the mutation returns, with its result decided, the
\* handler is a task not yet run; the later run of the task, failing or not,
\* changes neither the result of any call nor the store.
C16_CoroutineHandlersAreTasks ==
    [][/\ \A p \in Procs :
             pc[p] = "committed" /\ pc'[p] = "idle"
             => /\ ret'[p].status \in {"ok", "handler_error"}
                /\ \A i \in DOMAIN calls' :
                      calls'[i].rid = req[p].rid /\ IsCoroutineFunction(calls'[i].handler)
                      => calls'[i].state = "scheduled"
                /\ \A i \in 1 .. Len(HandlersOf(handlers, KindOf(req[p].op))) :
                      /\ IsCoroutineFunction(HandlersOf(handlers, KindOf(req[p].op))[i])
                      /\ ret'[p].status = "ok"
                      => \E j \in DOMAIN calls' :
                            /\ calls'[j].rid = req[p].rid
                            /\ calls'[j].handler = HandlersOf(handlers, KindOf(req[p].op))[i]
       /\ (\E i \in DOMAIN calls : calls[i].state = "scheduled")
          /\ RunTask(TRUE)
          => <<ret, store, pc, events, commits>>' = <<ret, store, pc, events, commits>>]_vars

\* A mutation has returned its success result and the task of a coroutine
\* handler of its event has failed afterwards.
C16_Witness ==
    \E i \in DOMAIN calls, j \in DOMAIN events :
        /\ calls[i].state = "raised"
        /\ calls[i].handler = "async_handler"
        /\ events[j].rid = calls[i].rid
        /\ events[j].config_id # None
        /\ ret[Main].status = "ok"

\* C17: an emit of an event of kind K calls or schedules exactly the handlers
\* registered under K, in the order of their registration, and none that is
\* registered only under another kind.
C17_HandlersOfKindInOrder ==
    [][events' # events
          => CalledFor(calls', Emitted.rid) = HandlersOf(handlers, Emitted.kind)]_vars

\* ------------------------------------------------------------- Delete, List
\* Ids that have been handed out and are no longer, or were never, stored.
AbsentIds ==
    {i \in 1 .. (nextId - 1) :
        /\ i \notin Ids(store)
        /\ \A p \in Procs : ~(sess[p].stmt = "insert" /\ sess[p].model.id = i)}

\* C18: the commit of Delete(id) removes the row of id and nothing else: every
\* other row, the children of id included, is stored as it was; from then on
\* the id stays absent, every Get of it returns not-found and no List page
\* holds it; the Delete returns success.
C18_DeleteRemovesOnlyThatEntity ==
    [][\A p \in Procs :
          /\ pc[p] = "flushed" /\ req[p].op = "delete" /\ pc'[p] = "committed"
             => /\ req[p].config_id \notin Ids(store')
                /\ store' = {r \in store : r.id # req[p].config_id}
          /\ pc[p] = "committed" /\ req[p].op = "delete" /\ pc'[p] = "idle"
             => /\ ret'[p].status = "ok"
                /\ req[p].config_id \in AbsentIds'
          /\ AbsentIds \subseteq AbsentIds'
          /\ \A i \in AbsentIds :
                Get(p, i) => ret'[p].status = "not_found" /\ ret'[p].entity = NullRow
          /\ pc[p] = "list" /\ pc'[p] = "idle"
             => \A r \in ret'[p].items : r \in store /\ r.id \notin AbsentIds]_vars

\* A Delete has returned success; a child of the deleted Configuration is
\* still stored and still names it as its parent.
C18_Witness ==
    /\ ret[Main].status = "ok"
    /\ \E j \in DOMAIN events, r \in store :
          /\ events[j].kind = "ConfigurationDeleted"
          /\ r.parent_config_id = events[j].config_id
          /\ events[j].config_id \in AbsentIds

\* C19: List(L, O) returns total equal to the number of stored Configurations,
\* whatever L and O, and at most L items, each of them a stored Configuration.
C19_ListTotalAndPage ==
    [][\A p \in Procs :
          pc[p] = "list" /\ pc'[p] = "idle"
          => /\ ret'[p].status = "page"
             /\ ret'[p].total = Cardinality(store)
             /\ Cardinality(ret'[p].items) <= req[p].limit
             /\ ret'[p].items \subseteq store]_vars

\* A List with limit 1 over two stored Configurations has returned one item
\* and total 2.
C19_Witness ==
    /\ ret[Main].status = "page"
    /\ ret[Main].total = 2
    /\ Cardinality(ret[Main].items) = 1
    /\ Cardinality(store) = 2

CreateReturns(p) ==
    pc[p] = "committed" /\ req[p].op = "create" /\ ret'[p].status = "ok"

\* C21: the commit of a Create stores one more row, whose id is the id of no
\* row stored before; the entity the Create returns is that stored row: its
\* active flag is true, its key, label and data_type are the supplied ones,
\* and its three lists, as stored in the columns and as returned, are the
\* supplied lists, element for element in the supplied order; a Get of its id
\* returns the same entity.
C21_CreateStoresSupplied ==
    [][\A p \in Procs :
          /\ pc[p] = "flushed" /\ req[p].op = "create" /\ pc'[p] = "committed"
             => /\ sess[p].model.id \notin Ids(store)
                /\ store' = store \cup {sess[p].model}
          /\ CreateReturns(p)
             => /\ ret'[p].entity \in store
                /\ ret'[p].entity.active = TRUE
                /\ ret'[p].entity.key = req[p].key
                /\ ret'[p].entity.label = req[p].label
                /\ ret'[p].entity.data_type = req[p].data_type
                /\ sublists.config = req[p].lists
                /\ \A f \in ListFields :
                      /\ sublists.domain[f] = req[p].lists[f]
                      /\ DecodeList(f, sublists.model[f]) = req[p].lists[f]
          /\ /\ pc[p] = "idle"
             /\ ret[p].status = "ok"
             /\ ret[p].entity # NullRow
             /\ Get(p, ret[p].entity.id)
             => ret'[p].entity = ret[p].entity]_vars

\* A Create with two validation rules has returned while another
\* Configuration was already stored: both are stored, under different ids,
\* and the rules read back are min, then max.
C21_Witness ==
    /\ ret[Main].status = "ok"
    /\ events[Len(events)].kind = "ConfigurationCreated"
    /\ events[Len(events)].config_id = ret[Main].entity.id
    /\ ret[Main].entity \in store
    /\ ret[Main].entity.active
    /\ Cardinality(store) = 2
    /\ Len(sublists.domain["validation_rules"]) = 2
    /\ sublists.domain["validation_rules"][1].rule_type = PyStr("min")
    /\ sublists.domain["validation_rules"][2].rule_type = PyStr("max")

\* What the entity model requires of a Configuration.
ValidFields(c) == c.key # "" /\ c.label # "" /\ c.data_type \in DataTypes

\* C22: a Create with an empty key, an empty label, an empty data_type or a
\* data_type outside the closed set is refused before anything is done: no
\* such create is ever in progress, no such row is ever stored and no such
\* event is ever emitted.
C22_InvalidCreateRejected ==
    /\ \A p \in Procs : req[p].op = "create" => ValidFields(req[p])
    /\ \A r \in store : ValidFields(r)
    /\ \A j \in DOMAIN events :
          events[j].kind = "ConfigurationCreated" => ValidFields(events[j])

\* C23: of two Creates with the same key that have both passed the existence
\* check, the one that reaches its INSERT after the other has committed fails
\* with the duplicate-key error, stores nothing and emits nothing, so that
\* one Configuration and one ConfigurationCreated event exist for the key.
C23_RaceLoserGetsDuplicateKey ==
    [][\A p \in Procs :
          /\ pc[p] = "create"
          /\ \E r \in store : r.key = req[p].key
          /\ CreateFlush(p, FALSE)
          => /\ ret'[p].status = "duplicate_key"
             /\ store' = store
             /\ events' = events]_vars

\* ------------------------------------------------------- GetParentOptions
\* C24: GetParentOptions without a current id returns every stored
\* Configuration, however many are stored, and GetParentOptions with a current
\* id returns what the tree resolver computes from the whole stored set.
C24_ParentOptionsOverFullSet ==
    \A p \in Procs :
        ret[p].status = "options"
        => ret[p].items = ParentOptions(store, ret[p].arg)

\* C25: whatever the stored parent references, cycles and self-references
\* included, every GetParentOptions returns a result, and its traversal has
\* called find_descendants at most once for each id.
C25_TraversalReturns ==
    \A p \in Procs :
        ret[p].arg # None /\ ret[p].status \in {"options", "recursion_error"}
        => /\ ret[p].status = "options"
           /\ \A i, j \in DOMAIN ret[p].visited :
                 ret[p].visited[i] = ret[p].visited[j] => i = j

\* ------------------------------------------------------------- timestamps
\* C26: the commit of every successful Update, whatever fields it supplies (none
\* at all, or values equal to the stored ones), leaves the entity with an
\* updated_at later than the one it had, and with the created_at it had.
C26_UpdatedAtRefreshed ==
    [][\A p \in Procs :
          UpdateCommits(p) /\ req[p].config_id \in Ids(store)
          => /\ IdAfter(p) \in Ids(store')
             /\ RowById(store', IdAfter(p)).updated_at
                  > RowById(store, req[p].config_id).updated_at
             /\ RowById(store', IdAfter(p)).created_at
                  = RowById(store, req[p].config_id).created_at]_vars

\* ------------------------------------------------------- what events carry
\* The fields of a Configuration that every event carries.
Carried == {"id", "key", "label", "data_type"}

\* C27: the event of a mutation carries the id, key, label and data_type of
\* the entity the mutation holds, and that entity has, in these fields, the
\* values its commit leaves stored (Create, Update) or the values of the row
\* its commit removes (Delete).
C27_EventCarriesCommitted ==
    [][\A p \in Procs :
          /\ pc[p] = "flushed" /\ pc'[p] = "committed" /\ req[p].op \in {"create", "update"}
             => /\ sess[p].model.id \in Ids(store')
                /\ \A f \in Carried :
                      RowById(store', sess[p].model.id)[f] = sess[p].model[f]
          /\ pc[p] = "flushed" /\ pc'[p] = "committed" /\ req[p].op = "delete"
             => /\ sess[p].model.id \in Ids(store)
                /\ \A f \in Carried :
                      RowById(store, sess[p].model.id)[f] = sess[p].model[f]
          /\ pc[p] = "committed" /\ pc'[p] = "idle"
             => /\ Len(events') = Len(events) + 1
                /\ Emitted.kind = KindOf(req[p].op)
                /\ Emitted.config_id = sess[p].model.id
                /\ Emitted.key = sess[p].model.key
                /\ Emitted.label = sess[p].model.label
                /\ Emitted.data_type = sess[p].model.data_type]_vars

\* The step in which the mutation of p emits its event and returns.
MutationEmits(p) ==
    pc[p] = "committed" /\ pc'[p] = "idle" /\ Len(events') = Len(events) + 1

\* C28 as stated: the event of a Create, Update or Delete carries the
\* correlation id the caller supplied whenever one is supplied, and "unknown"
\* only when none is supplied.
C28_CorrelationIdCarried ==
    [][\A p \in Procs :
          MutationEmits(p)
          => /\ req[p].correlation_id # PyNone
                => Emitted.correlation_id = req[p].correlation_id
             /\ Emitted.correlation_id = PyStr("unknown")
                => req[p].correlation_id = PyNone]_vars

\* C28, amended: the event of a Create, Update or Delete carries the
\* correlation id the caller supplied whenever a non-empty one is supplied,
\* and "unknown" when none or the empty string is supplied.
C28_NonEmptyCorrelationIdCarried ==
    [][\A p \in Procs :
          MutationEmits(p)
          => IF req[p].correlation_id \in {PyNone, PyStr("")}
             THEN Emitted.correlation_id = PyStr("unknown")
             ELSE Emitted.correlation_id = req[p].correlation_id]_vars

\* A Create, an Update and a Delete have emitted their events, one of them
\* with the caller's correlation id and one with "unknown".
C28_Witness ==
    /\ \A op \in Ops : \E j \in DOMAIN events : events[j].kind = KindOf(op)
    /\ \E j \in DOMAIN events : events[j].correlation_id = PyStr("corr-123")
    /\ \E j \in DOMAIN events : events[j].correlation_id = PyStr("unknown")

\* ------------------------------------------------------------------- reads
\* C29: a step of Get, of List or of GetParentOptions leaves the store, the
\* emitted events and the committed transactions as they are, whatever is
\* stored and whatever its arguments; Get returns the stored entity when its
\* id is stored and the not-found signal otherwise.
C29_ReadsChangeNothing ==
    [][\A p \in Procs :
          /\ \A config_id \in KnownIds :
                Get(p, config_id)
                => /\ <<store, events, commits>>' = <<store, events, commits>>
                   /\ IF config_id \in Ids(store)
                      THEN /\ ret'[p].status = "found"
                           /\ ret'[p].entity \in store
                           /\ ret'[p].entity.id = config_id
                      ELSE /\ ret'[p].status = "not_found"
                           /\ ret'[p].entity = NullRow
          /\ List(p) => <<store, events, commits>>' = <<store, events, commits>>
          /\ \A current \in KnownIds \cup {None} :
                GetParentOptions(p, current)
                => <<store, events, commits>>' = <<store, events, commits>>]_vars

\* With two Configurations stored, a Get has returned one of them; the two
\* events of their creation are the only ones emitted.
C29_Witness ==
    /\ ret[Main].status = "found"
    /\ ret[Main].entity \in store
    /\ Cardinality(store) = 2
    /\ Len(events) = 2
    /\ nreq = 3

\* ------------------------------------------------------- concurrent updates
\* C30: of two Updates of the same id that are under way together, neither is
\* rejected at its flush or commit, and when the second of them commits, the
\* stored value of every field both have supplied is the value this last
\* committer supplied.
C30_LastCommittedWriteWins ==
    [][\A p \in Procs, q \in Procs :
          /\ p # q
          /\ req[p].op = "update" /\ req[q].op = "update"
          /\ req[p].config_id = req[q].config_id
          /\ pc[q] = "committed"
          => /\ pc[p] = "update" /\ UpdateFlush(p, FALSE) => pc'[p] = "flushed"
             /\ pc[p] = "flushed" /\ UpdateCommit(p, FALSE)
                => /\ pc'[p] = "committed"
                   /\ req[p].config_id \in Ids(store')
                   /\ \A f \in DOMAIN RepoUpdates(p) \cap DOMAIN RepoUpdates(q) :
                         RowById(store', req[p].config_id)[f] = RepoUpdates(p)[f]]_vars

\* ---------------------------------------------------------- the handler table
\* C31: the handler table changes only in a step that calls on(): on(kind,
\* handler) leaves the list of kind as it was with handler added at its end
\* and the lists of the other kinds as they were (the six on() calls of
\* register_all_event_handlers add the audit handler, then the message-bus
\* handler, to each kind); such a step emits nothing, and a step that emits,
\* or in which a task runs, leaves the table as it is, whether the handlers
\* raise or not.
C31_OnlyOnChangesHandlers ==
    [][/\ handlers' # handlers
          => /\ events' = events
             /\ calls' = calls
             /\ \/ \E kind \in Kinds, handler \in Handlers :
                      /\ HandlersOf(handlers', kind)
                           = Append(HandlersOf(handlers, kind), handler)
                      /\ \A other \in Kinds \ {kind} :
                            HandlersOf(handlers', other) = HandlersOf(handlers, other)
                \/ \A kind \in Kinds :
                      HandlersOf(handlers', kind)
                        = HandlersOf(handlers, kind)
                            \o <<AuditHandler(kind), KafkaHandler(kind)>>
       /\ events' # events \/ calls' # calls => handlers' = handlers]_vars

\* Two different handlers are registered for one kind, in the order of their
\* on() calls; an event of that kind has since been emitted and one of the
\* handlers has raised.
C31_Witness ==
    \E kind \in Kinds :
        /\ Len(HandlersOf(handlers, kind)) = 2
        /\ HandlersOf(handlers, kind)[1] # HandlersOf(handlers, kind)[2]
        /\ \E j \in DOMAIN events : events[j].kind = kind
        /\ \E i \in DOMAIN calls : calls[i].kind = kind /\ calls[i].state = "raised"

\* ---------------------------------------------------------- the sink handlers
\* The label the sink call of a handler subscribed for `kind` is to carry.
AuditActionOf(kind) ==
    CASE kind = "ConfigurationCreated" -> "CREATE"
      [] kind = "ConfigurationUpdated" -> "UPDATE"
      [] kind = "ConfigurationDeleted" -> "DELETE"

TopicOf(kind) ==
    CASE kind = "ConfigurationCreated" -> "configuration.created"
      [] kind = "ConfigurationUpdated" -> "configuration.updated"
      [] kind = "ConfigurationDeleted" -> "configuration.deleted"

\* The handler calls of the log that are runs of a sink handler to its end.
SinkRuns ==
    {i \in DOMAIN calls : calls[i].handler \in SinkHandlers /\ calls[i].state # "scheduled"}

\* Every sink call of run i goes to the sink of its handler and is labelled
\* with the kind of the event the handler was given.
LabelledWithKind(i) ==
    \A n \in DOMAIN calls[i].sink :
        IF calls[i].handler = AuditHandler(calls[i].kind)
        THEN /\ calls[i].sink[n].call.sink = "log_audit_event"
             /\ calls[i].sink[n].call.label = AuditActionOf(calls[i].kind)
        ELSE /\ calls[i].handler = KafkaHandler(calls[i].kind)
             /\ calls[i].sink[n].call.sink = "DomainEventsConnector.emit"
             /\ calls[i].sink[n].call.label = TopicOf(calls[i].kind)

\* C32 as stated: every sink handler that has run for an event of its kind has
\* made exactly one call to its sink, labelled with that kind: one audit-log
\* call with action CREATE, UPDATE or DELETE, or one connector emit on topic
\* configuration.created, configuration.updated or configuration.deleted.
C32_OneSinkCallPerEvent ==
    \A i \in SinkRuns : Len(calls[i].sink) = 1 /\ LabelledWithKind(i)

\* C32, amended: every sink handler that has run for an event of its kind has
\* made exactly one call to its sink, labelled with that kind, except that a
\* message-bus handler has made none when loading the connector or building
\* the metadata failed.
C32_OneSinkCallUnlessConnectorMissing ==
    \A i \in SinkRuns :
        /\ LabelledWithKind(i)
        /\ IF /\ calls[i].handler = KafkaHandler(calls[i].kind)
              /\ calls[i].fault \in {"connector", "meta"}
           THEN Len(calls[i].sink) = 0
           ELSE Len(calls[i].sink) = 1

\* A Create, an Update and a Delete have emitted their events and each of the
\* six sink handlers has run for the event of its kind and made its call.
C32_Witness ==
    /\ \A kind \in Kinds : \E j \in DOMAIN events : events[j].kind = kind
    /\ \A handler \in SinkHandlers :
          \E i \in SinkRuns :
              /\ calls[i].handler = handler
              /\ calls[i].state = "done"
              /\ Len(calls[i].sink) = 1
              /\ ~calls[i].sink[1].failed

\* The runs of a message-bus handler in the call log.
KafkaRuns == {i \in SinkRuns : calls[i].handler = KafkaHandler(calls[i].kind)}

\* C33: a message-bus handler never raises: when loading the connector,
\* building the metadata or the connector's emit fails, the handler has logged
\* the failure and has completed normally, having called the connector once
\* when it was the emit that failed and not at all otherwise; a handler that
\* has run is not run again, so the connector is not called a second time for
\* that event.
C33_KafkaHandlerNeverRaises ==
    /\ [](\A i \in KafkaRuns :
             /\ calls[i].state = "done"
             /\ Len(calls[i].sink) <= 1
             /\ calls[i].fault # "none"
                => /\ calls[i].logged
                   /\ \A n \in DOMAIN calls[i].sink : calls[i].sink[n].failed
                   /\ Len(calls[i].sink) = IF calls[i].fault = "emit" THEN 1 ELSE 0)
    /\ [][events' = events
          => /\ Len(calls') = Len(calls)
             /\ \A i \in KafkaRuns : calls'[i] = calls[i]]_vars

\* Three message-bus handlers have run, one for each kind of event: the
\* import of the connector failed in one, the construction of the metadata in
\* another and the connector's emit in the third; all three logged the
\* failure and completed.
C33_Witness ==
    /\ \A kind \in Kinds : \E i \in KafkaRuns : calls[i].kind = kind
    /\ \A fault \in {"connector", "meta", "emit"} :
          \E i \in KafkaRuns :
              calls[i].fault = fault /\ calls[i].logged /\ calls[i].state = "done"

\* ------------------------------------------------------------ no tombstone
\* The latest event that carries `key` is the ConfigurationDeleted event of a
\* successful Delete: the Configuration created under key has been deleted.
DeletedKey(key) ==
    \E j \in DOMAIN events :
        /\ events[j].key = key
        /\ events[j].kind = "ConfigurationDeleted"
        /\ \A n \in DOMAIN events : n > j => events[n].key # key

\* The ids of the Configurations deleted so far.
DeletedIds ==
    {events[j].config_id : j \in {n \in DOMAIN events : events[n].kind = "ConfigurationDeleted"}}

\* C34: once the Configuration created under key K has been deleted, a new
\* Create with key K passes the existence check, inserts and commits a row
\* whose id is the id of no deleted Configuration, returns success and emits a
\* ConfigurationCreated event of its own, for the new id.
C34_NoTombstone ==
    [][\A p \in Procs :
          /\ \A key \in Keys, label \in Labels, parent \in KnownIds \cup {None} :
                CreateRequest(p, key, label, parent) /\ DeletedKey(key)
                => pc'[p] = "create"
          /\ req[p].op = "create" /\ DeletedKey(req[p].key)
             => /\ CreateFlush(p, FALSE)
                   => /\ pc'[p] = "flushed"
                      /\ sess'[p].model.key = req[p].key
                      /\ sess'[p].model.id \notin DeletedIds
                /\ CreateCommit(p, FALSE)
                   => /\ pc'[p] = "committed"
                      /\ sess[p].model \in store'
                /\ CreateEmit(p)
                   => /\ ret'[p].status = "ok"
                      /\ ret'[p].entity \in store
                      /\ ret'[p].entity.id \notin DeletedIds
                      /\ Len(events') = Len(events) + 1
                      /\ Emitted.kind = "ConfigurationCreated"
                      /\ Emitted.key = req[p].key
                      /\ Emitted.config_id = ret'[p].entity.id]_vars

\* Create(k), Delete of the created Configuration and Create(k) again have all
\* succeeded: the second Configuration is stored under another id and three
\* events have been emitted.
C34_Witness ==
    /\ Len(events) = 3
    /\ events[1].kind = "ConfigurationCreated"
    /\ events[2].kind = "ConfigurationDeleted"
    /\ events[3].kind = "ConfigurationCreated"
    /\ events[2].config_id = events[1].config_id
    /\ events[3].key = events[1].key
    /\ events[3].config_id # events[1].config_id
    /\ ret[Main].status = "ok"
    /\ ret[Main].entity.id = events[3].config_id
    /\ Ids(store) = {events[3].config_id}

\* ------------------------------------------------------------------ paging
\* The orderings of the rows of S.
Orderings(S) ==
    {ord \in [1 .. Cardinality(S) -> S] :
        \A i, j \in 1 .. Cardinality(S) : ord[i] = ord[j] => i = j}

\* C35: while the store is unchanged, there is one ordering of the stored
\* Configurations of which every page returned holds the items at positions
\* O .. O+L-1 (counted from 0), O and L being its offset and limit; pages at
\* different multiples of L are then disjoint and together hold every row.
C35_ListUsesOneOrdering ==
    \E ord \in Orderings(store) :
        \A p \in Procs :
            ret[p].status = "page"
            => ret[p].items =
                 {ord[i] : i \in {k \in 1 .. Cardinality(store) :
                                     /\ k > ret[p].offset
                                     /\ k <= ret[p].offset + ret[p].limit}}

\* ------------------------------------------------- parent options and cycles
\* No Configuration of S is its own ancestor.
Acyclic(S) == \A r \in S : ~OnCycle(S, r.id)

\* S after the parent_config_id of x has been set to parent.
WithParent(S, x, parent) ==
    {IF r.id = x THEN [r EXCEPT !.parent_config_id = parent] ELSE r : r \in S}

\* C36: in a store whose parent graph is acyclic, for every stored X, making
\* any Configuration that GetParentOptions(X) returned the parent of X leaves
\* the graph acyclic, and every stored Configuration it did not return is X
\* itself or one that as parent of X would close a cycle.
C36_ParentOptionsKeepAcyclic ==
    \A p \in Procs :
        /\ ret[p].status = "options"
        /\ ret[p].arg \in Ids(store)
        /\ Acyclic(store)
        => /\ \A P \in ret[p].items : Acyclic(WithParent(store, ret[p].arg, P.id))
           /\ \A c \in store \ ret[p].items :
                 \/ c.id = ret[p].arg
                 \/ ~Acyclic(WithParent(store, ret[p].arg, c.id))

\* ------------------------------------------------------- the order of events
\* The position in the commit order of the mutation of request r.
CommitPos(r) == CHOOSE n \in DOMAIN commits : commits[n].rid = r

\* C37: of any two events emitted for the same id, the one emitted first
\* belongs to the mutation that committed first and is not the
\* ConfigurationDeleted event of the id: ConfigurationCreated comes first,
\* the ConfigurationUpdated events follow in commit order, and nothing
\* follows ConfigurationDeleted.
C37_EventsInCommitOrder ==
    \A i, j \in DOMAIN events :
        i < j /\ events[i].config_id = events[j].config_id
        => /\ events[i].rid \in CommittedRids
           /\ events[j].rid \in CommittedRids
           /\ CommitPos(events[i].rid) < CommitPos(events[j].rid)
           /\ events[i].kind # "ConfigurationDeleted"
           /\ events[j].kind # "ConfigurationCreated"

\* ------------------------------------------------------------ no resurrection
\* The Delete of id has committed.
DeleteCommitted(id) ==
    \E n \in DOMAIN commits : commits[n].op = "delete" /\ commits[n].id = id

\* C38: once the Delete of an id has committed, no row of that id is stored
\* in any later state; an Update of that id that read the row and had not
\* committed when the Delete committed inserts nothing and does not go on to
\* commit and return success.
C38_DeletedNeverResurrected ==
    /\ [](\A n \in DOMAIN commits :
             commits[n].op = "delete" => commits[n].id \notin Ids(store))
    /\ [][\A p \in Procs :
             /\ req[p].op = "update"
             /\ pc[p] \in {"update", "flushed"}
             /\ DeleteCommitted(req[p].config_id)
             => /\ req[p].config_id \notin Ids(store')
                /\ pc'[p] # "committed"
                /\ ret'[p].status # "ok"]_vars

====
